---- MODULE Spec2Model ----
(***************************************************************************)
(* A model of build.js: the coverage-guided dead-code elimination script.  *)
(*                                                                         *)
(* The script is one sequential run: instrument the source, execute the    *)
(* instrumented program on the test input (collecting the coverage object  *)
(* and the original output), run the Babel plugin removeUnusedCode over    *)
(* the parsed source, write trimmed.js, execute the trimmed program inside *)
(* a try/catch and compare outputs, then minify and write uglified.js.     *)
(*                                                                         *)
(* The parsed program is modelled as the list of the top-level statements  *)
(* of the file.  A statement is a function declaration or an expression    *)
(* statement; an expression statement holds one function expression (the   *)
(* right-hand side of an assignment, or a call argument).  Function        *)
(* parameters and bodies are kept as counts (how many parameters, how many *)
(* body statements): the plugin only ever replaces them by empty lists.    *)
(* Each visitor call of the plugin is one action; Babel's traversal is the *)
(* cursor that says which visitor runs next on which node.                 *)
(***************************************************************************)
EXTENDS Integers, Sequences, FiniteSets, TLC

VARIABLES pc, program, coverage, ast, removed, cursor, files,
          beforeTestOutput, afterTestOutput, validation, console, history

vars == <<pc, program, coverage, ast, removed, cursor, files,
          beforeTestOutput, afterTestOutput, validation, console, history>>

(***************************************************************************)
(* Bounds of the model.                                                    *)
(***************************************************************************)
\* the longest program: its number of top-level statements
MaxStmts == 2
\* the most descriptors (function and statement descriptors together) of a report
MaxEntries == 2

\* identifier names; NoId is a missing identifier (id: null), NoName a
\* descriptor without a name (name: undefined)
Names == {"f", "g"}
NoId == "<null>"
NoName == "<undefined>"
HitCounts == {0, 1}
Columns == {0, 1}
Lines == 1 .. MaxStmts
\* what precompile(test) can return: the original program's value is named "A"
OriginalOutputs == {"A"}
Outputs == {"A", "B"}
NoOutput == "<none>"
Threw == "<threw>"

(***************************************************************************)
(* Locations.  NoLoc is a node without a loc (a node built by the plugin). *)
(***************************************************************************)
Loc(sl, sc, el) == [start |-> [line |-> sl, column |-> sc], end |-> [line |-> el]]
NoLoc == Loc(0, 0, 0)

(***************************************************************************)
(* AST nodes.                                                              *)
(***************************************************************************)
FunctionExpressionNode(line, id, parent) ==
    [type |-> "FunctionExpression", loc |-> Loc(line, 1, line), id |-> id,
     params |-> 1, body |-> 1, parent |-> parent]

FunctionDeclarationNode(line, id) ==
    [type |-> "FunctionDeclaration", loc |-> Loc(line, 0, line), id |-> id,
     params |-> 1, body |-> 1, fe |-> << >>]

ExpressionStatementNode(line, fe) ==
    [type |-> "ExpressionStatement", loc |-> Loc(line, 0, line), id |-> NoId,
     params |-> 0, body |-> 0, fe |-> fe]

\* the statements that can stand on line `line` of the source
StatementsAt(line) ==
    {FunctionDeclarationNode(line, "f"),
     ExpressionStatementNode(line, <<FunctionExpressionNode(line, "f", "AssignmentExpression")>>),
     ExpressionStatementNode(line, <<FunctionExpressionNode(line, "f", "CallExpression")>>)}

\* the source files: statement k stands on line k
Programs ==
    UNION {{p \in [1 .. n -> UNION {StatementsAt(l) : l \in Lines}] :
               \A k \in 1 .. n : p[k] \in StatementsAt(k)} : n \in 1 .. MaxStmts}

(***************************************************************************)
(* Coverage reports: {fnMap, f, statementMap, s} of the file, or no entry  *)
(* for the file (coverageForFiles[this.filename] undefined).               *)
(***************************************************************************)
\* function descriptors: all start on the first line; the end line is the start
\* line or the next one; the name is a name or missing
FnLines == {1}
FnEntries ==
    {[kind |-> "fn", name |-> n, sl |-> l, sc |-> 0, el |-> e, hits |-> h] :
        n \in Names \cup {NoName}, l \in FnLines, e \in {0, 1}, h \in HitCounts}

\* statement descriptors: one-line locations on the first two lines
StmtLines == {1, 2}
StmtEntries ==
    {[kind |-> "stmt", name |-> NoName, sl |-> l, sc |-> c, el |-> 0, hits |-> h] :
        l \in StmtLines, c \in Columns, h \in HitCounts}

EntrySeqs == UNION {[1 .. n -> FnEntries \cup StmtEntries] : n \in 0 .. MaxEntries}

IsFn(e) == e.kind = "fn"
IsStmt(e) == e.kind = "stmt"

\* the report whose descriptors are those of es, in that order
Report(es) ==
    LET fns == SelectSeq(es, IsFn)
        sts == SelectSeq(es, IsStmt)
    IN  [present |-> TRUE,
         fnMap |-> [k \in 1 .. Len(fns) |->
                      [name |-> fns[k].name,
                       loc |-> [start |-> [line |-> fns[k].sl],
                                end |-> [line |-> fns[k].sl + fns[k].el]]]],
         f |-> [k \in 1 .. Len(fns) |-> fns[k].hits],
         statementMap |-> [k \in 1 .. Len(sts) |->
                             Loc(sts[k].sl, sts[k].sc, sts[k].sl + sts[k].el)],
         s |-> [k \in 1 .. Len(sts) |-> sts[k].hits]]

NoCoverage == [present |-> FALSE, fnMap |-> << >>, f |-> << >>,
               statementMap |-> << >>, s |-> << >>]

Reports == {Report(es) : es \in EntrySeqs} \cup {NoCoverage}

(***************************************************************************)
(* The location matcher.  A JavaScript && chain is modelled by its         *)
(* truthiness.                                                             *)
(***************************************************************************)
\* the matcher with && between the name prong and the end-line prong
isSameFunctionBothProngs(nodeA, nodeB) ==
    /\ nodeA.loc # NoLoc
    /\ nodeB.name # NoName
    /\ nodeA.loc.start.line = nodeB.loc.start.line
    /\ (nodeA.id # NoId /\ nodeA.id = nodeB.name)
    /\ nodeA.loc.end.line = nodeB.loc.end.line

isSameFunction(nodeA, nodeB) ==
    /\ nodeA.loc # NoLoc
    /\ nodeB.name # NoName
    /\ nodeA.loc.start.line = nodeB.loc.start.line
    /\ \/ (nodeA.id # NoId /\ nodeA.id = nodeB.name)
       \/ nodeA.loc.end.line = nodeB.loc.end.line

\* the matcher without the comparison of the start columns
isSameStatementNoColumn(locA, locB) ==
    /\ locA # NoLoc
    /\ locB # NoLoc
    /\ locA.start.line = locB.start.line
    /\ locA.end.line = locB.end.line

isSameStatement(locA, locB) ==
    /\ locA # NoLoc
    /\ locB # NoLoc
    /\ locA.start.line = locB.start.line
    /\ locA.end.line = locB.end.line
    /\ locA.start.column = locB.start.column

\* the test of the hit count inverted
isDeadCodeNonZero(hits) == hits # 0

\* const isDeadCode = coverage.f[fnNum] === 0 (and coverage.s[sNum] === 0)

isDeadCode(hits) == hits = 0

(***************************************************************************)
(* The scans of the visitors: `for (const k in map)` visits the numeric    *)
(* keys in ascending order; a descriptor that does not match, or matches   *)
(* with a non-zero hit count, is skipped with `continue`.  The result is   *)
(* the key at which the visitor rewrites the node, 0 when the loop ends.   *)
(***************************************************************************)
RECURSIVE FirstMatchFn(_, _, _)
\* a scan that stops at the first descriptor that matches
FirstMatchFn(node, cov, k) ==
    IF k > Len(cov.fnMap) THEN 0
    ELSE IF ~isSameFunction(node, cov.fnMap[k]) THEN FirstMatchFn(node, cov, k + 1)
    ELSE IF ~isDeadCode(cov.f[k]) THEN 0
    ELSE k

RECURSIVE DeadFunctionKey(_, _, _)
DeadFunctionKey(node, cov, k) ==
    IF k > Len(cov.fnMap) THEN 0
    ELSE IF ~isSameFunction(node, cov.fnMap[k]) THEN DeadFunctionKey(node, cov, k + 1)
    ELSE IF ~isDeadCode(cov.f[k]) THEN DeadFunctionKey(node, cov, k + 1)
    ELSE k

RECURSIVE DeadStatementKey(_, _, _)
DeadStatementKey(node, cov, k) ==
    IF k > Len(cov.statementMap) THEN 0
    ELSE IF ~isSameStatement(node.loc, cov.statementMap[k]) THEN DeadStatementKey(node, cov, k + 1)
    ELSE IF ~isDeadCode(cov.s[k]) THEN DeadStatementKey(node, cov, k + 1)
    ELSE k

(***************************************************************************)
(* The nodes the plugin builds: t.functionDeclaration(path.node.id, [],    *)
(* t.blockStatement([])) and t.functionExpression(null, [],                *)
(* t.blockStatement([])).  A built node has no loc.                        *)
(***************************************************************************)
\* the declaration's stub built without the identifier
FunctionDeclarationNoopAnonymous(node) ==
    [type |-> "FunctionDeclaration", loc |-> NoLoc, id |-> NoId,
     params |-> 0, body |-> 0, fe |-> << >>]

FunctionDeclarationNoop(node) ==
    [type |-> "FunctionDeclaration", loc |-> NoLoc, id |-> node.id,
     params |-> 0, body |-> 0, fe |-> << >>]

FunctionExpressionNoop(node) ==
    [type |-> "FunctionExpression", loc |-> NoLoc, id |-> NoId,
     params |-> 0, body |-> 0, parent |-> node.parent]

(***************************************************************************)
(* The visitors, as the change each makes to the node it is called on.     *)
(***************************************************************************)
\* visitor.FunctionDeclaration: the node after the call
FunctionDeclarationVisitor(node, cov) ==
    IF ~cov.present THEN node
    ELSE IF DeadFunctionKey(node, cov, 1) = 0 THEN node
    ELSE FunctionDeclarationNoop(node)

\* the normalisation without the test of the parent's type
StripIdAlways(node) == [node EXCEPT !.id = NoId]

\* if (path.node.id && path.parent.type === 'AssignmentExpression') path.node.id = null
StripId(node) ==
    IF node.id # NoId /\ node.parent = "AssignmentExpression"
    THEN [node EXCEPT !.id = NoId]
    ELSE node

\* visitor.FunctionExpression: the node after the call
FunctionExpressionVisitor(node, cov) ==
    LET stripped == StripId(node)
    IN  IF ~cov.present THEN stripped
        ELSE IF DeadFunctionKey(stripped, cov, 1) = 0 THEN stripped
        ELSE FunctionExpressionNoop(stripped)

\* visitor.Statement: whether the call removes the node
StatementVisitor(node, cov) ==
    /\ cov.present
    /\ DeadStatementKey(node, cov, 1) # 0

(***************************************************************************)
(* Babel's traversal of the statement list.  The enter visitors of a       *)
(* function declaration are [FunctionDeclaration, Statement] (the alias    *)
(* Statement is merged after the node type's own visitor), those of an     *)
(* expression statement [Statement]; a function expression inside a kept   *)
(* statement is visited after its statement.  A node that a visitor        *)
(* replaces is requeued: the remaining visitors of the call are skipped    *)
(* and the new node is visited from its first visitor.  A removed node's   *)
(* children are not visited.                                               *)
(***************************************************************************)
PhaseOf(node) ==
    IF node.type = "FunctionDeclaration" THEN "FunctionDeclaration" ELSE "Statement"

CursorAt(tree, i) ==
    [i |-> i, phase |-> IF i <= Len(tree) THEN PhaseOf(tree[i]) ELSE "exit"]

NoCursor == [i |-> 0, phase |-> "none"]

\* the statements of the printed program: the nodes that were not removed
RECURSIVE Kept(_, _, _)
Kept(tree, rm, k) ==
    IF k > Len(tree) THEN << >>
    ELSE IF k \in rm THEN Kept(tree, rm, k + 1)
    ELSE <<tree[k]>> \o Kept(tree, rm, k + 1)

trimmedCode == Kept(ast, removed, 1)

(***************************************************************************)
(* The state after the script's requires: the source file is on disk.      *)
(***************************************************************************)
Init ==
    /\ pc = "start"
    /\ program \in Programs
    /\ coverage = NoCoverage
    /\ ast = << >>
    /\ removed = {}
    /\ cursor = NoCursor
    /\ files = {}
    /\ beforeTestOutput = NoOutput
    /\ afterTestOutput = NoOutput
    /\ validation = "none"
    /\ console = << >>
    /\ history = << >>

\* lines 16-28: read the source, write original.js, instrument, write instrumented.js
Instrument ==
    /\ pc = "start"
    /\ pc' = "instrumented"
    /\ files' = files \cup {"original.js", "instrumented.js"}
    /\ history' = Append(history, "instrument")
    /\ UNCHANGED <<program, coverage, ast, removed, cursor, beforeTestOutput,
                   afterTestOutput, validation, console>>

\* lines 48-67: run the instrumented program and call precompile(test), outside
\* any try: an exception ends the script
CollectCoverageThrows ==
    /\ pc = "instrumented"
    /\ pc' = "crashed"
    /\ beforeTestOutput' = Threw
    /\ UNCHANGED <<program, coverage, ast, removed, cursor, files,
                   afterTestOutput, validation, console, history>>

\* lines 48-67: the coverage object of the run and the original output
CollectCoverage ==
    /\ pc = "instrumented"
    /\ \E cov \in Reports, out \in OriginalOutputs :
          /\ coverage' = cov
          /\ beforeTestOutput' = out
    /\ pc' = "covered"
    /\ history' = Append(history, "execute-original")
    /\ UNCHANGED <<program, ast, removed, cursor, files, afterTestOutput,
                   validation, console>>

\* line 156: babel.transform parses the source and starts the traversal
\* the transform started without waiting for the run of the instrumented program
BeginTransformEarly ==
    /\ pc \in {"instrumented", "covered"}
    /\ pc' = "transform"
    /\ ast' = program
    /\ cursor' = CursorAt(program, 1)
    /\ history' = Append(history, "rewrite-begin")
    /\ UNCHANGED <<program, coverage, removed, files, beforeTestOutput,
                   afterTestOutput, validation, console>>

BeginTransform ==
    /\ pc = "covered"
    /\ pc' = "transform"
    /\ ast' = program
    /\ cursor' = CursorAt(program, 1)
    /\ history' = Append(history, "rewrite-begin")
    /\ UNCHANGED <<program, coverage, removed, files, beforeTestOutput,
                   afterTestOutput, validation, console>>

\* lines 98-115, called by the traversal on a function declaration
VisitFunctionDeclaration ==
    /\ pc = "transform"
    /\ cursor.phase = "FunctionDeclaration"
    /\ LET i == cursor.i
           new == FunctionDeclarationVisitor(ast[i], coverage)
       IN  /\ ast' = [ast EXCEPT ![i] = new]
           /\ cursor' = IF new # ast[i] THEN cursor
                        ELSE [cursor EXCEPT !.phase = "Statement"]
    /\ UNCHANGED <<pc, program, coverage, removed, files, beforeTestOutput,
                   afterTestOutput, validation, console, history>>

\* lines 136-148, called by the traversal on every statement
VisitStatement ==
    /\ pc = "transform"
    /\ cursor.phase = "Statement"
    /\ LET i == cursor.i
       IN  IF StatementVisitor(ast[i], coverage)
           THEN /\ removed' = removed \cup {i}
                /\ cursor' = CursorAt(ast, i + 1)
           ELSE /\ removed' = removed
                /\ cursor' = IF ast[i].fe # << >>
                             THEN [cursor EXCEPT !.phase = "FunctionExpression"]
                             ELSE CursorAt(ast, i + 1)
    /\ UNCHANGED <<pc, program, coverage, ast, files, beforeTestOutput,
                   afterTestOutput, validation, console, history>>

\* lines 116-135, called by the traversal on a function expression
VisitFunctionExpression ==
    /\ pc = "transform"
    /\ cursor.phase = "FunctionExpression"
    /\ LET i == cursor.i
           old == ast[i].fe[1]
           new == FunctionExpressionVisitor(old, coverage)
       IN  /\ ast' = [ast EXCEPT ![i].fe = <<new>>]
           /\ cursor' = IF new.loc # old.loc THEN cursor ELSE CursorAt(ast, i + 1)
    /\ UNCHANGED <<pc, program, coverage, removed, files, beforeTestOutput,
                   afterTestOutput, validation, console, history>>

\* lines 161-163: the traversal is over; print the tree and write trimmed.js
WriteTrimmed ==
    /\ pc = "transform"
    /\ cursor.phase = "exit"
    /\ pc' = "trimmed"
    /\ files' = files \cup {"trimmed.js"}
    /\ history' = history \o <<"rewrite-end", "write-trimmed">>
    /\ UNCHANGED <<program, coverage, ast, removed, cursor, beforeTestOutput,
                   afterTestOutput, validation, console>>

\* the console calls of lines 192-206 for the result of the trimmed run
Report192(before, after) ==
    IF after = Threw THEN <<[level |-> "error", text |-> <<"err">>]>>
    ELSE IF after = before
         THEN <<[level |-> "log", text |-> <<"Trimming succeeded!">>],
                [level |-> "log", text |-> <<after>>]>>
         ELSE <<[level |-> "warn", text |-> <<"Output from trimmed code different from original!">>],
                [level |-> "log", text |-> <<"original:", before>>],
                [level |-> "log", text |-> <<"after:", after>>]>>

Verdict(before, after) ==
    IF after = Threw THEN "failed" ELSE IF after = before THEN "equal" ELSE "mismatch"

\* lines 169-207 without the try/catch: an exception of the trimmed run ends the script
ValidateUncaught ==
    /\ pc = "trimmed"
    /\ \E after \in Outputs \cup {Threw} :
          /\ afterTestOutput' = after
          /\ validation' = Verdict(beforeTestOutput, after)
          /\ IF after = Threw
             THEN /\ pc' = "crashed"
                  /\ console' = console
             ELSE /\ pc' = "validated"
                  /\ console' = console \o Report192(beforeTestOutput, after)
    /\ history' = Append(history, "execute-trimmed")
    /\ UNCHANGED <<program, coverage, ast, removed, cursor, files, beforeTestOutput>>

\* lines 169-207 with a mismatch that stops the script before uglified.js
ValidateGating ==
    /\ pc = "trimmed"
    /\ \E after \in Outputs \cup {Threw} :
          /\ afterTestOutput' = after
          /\ validation' = Verdict(beforeTestOutput, after)
          /\ console' = console \o Report192(beforeTestOutput, after)
          /\ pc' = IF Verdict(beforeTestOutput, after) = "mismatch" THEN "crashed" ELSE "validated"
    /\ history' = Append(history, "execute-trimmed")
    /\ UNCHANGED <<program, coverage, ast, removed, cursor, files, beforeTestOutput>>

\* lines 169-207: run the trimmed program and call precompile(test) inside the
\* try; compare with the original output; the catch logs the error
Validate ==
    /\ pc = "trimmed"
    /\ \E after \in Outputs \cup {Threw} :
          /\ afterTestOutput' = after
          /\ validation' = Verdict(beforeTestOutput, after)
          /\ console' = console \o Report192(beforeTestOutput, after)
    /\ pc' = "validated"
    /\ history' = Append(history, "execute-trimmed")
    /\ UNCHANGED <<program, coverage, ast, removed, cursor, files, beforeTestOutput>>

\* lines 213-219: minify the trimmed code and write uglified.js
WriteUglified ==
    /\ pc = "validated"
    /\ pc' = "done"
    /\ files' = files \cup {"uglified.js"}
    /\ history' = Append(history, "write-uglified")
    /\ UNCHANGED <<program, coverage, ast, removed, cursor, beforeTestOutput,
                   afterTestOutput, validation, console>>

Next ==
    \/ Instrument
    \/ CollectCoverageThrows
    \/ CollectCoverage
    \/ BeginTransform
    \/ VisitFunctionDeclaration
    \/ VisitStatement
    \/ VisitFunctionExpression
    \/ WriteTrimmed
    \/ Validate
    \/ WriteUglified

Spec == Init /\ [][Next]_vars

(***************************************************************************)
(* Vocabulary of the properties.                                           *)
(***************************************************************************)
\* the traversal is over and its tree has just been printed to trimmed.js (no
\* later step of the script touches the tree)
Traversed == pc = "trimmed"

\* the traversal has left statement i
Visited(i) == Traversed \/ (pc = "transform" /\ cursor.i > i)

IsDeclaration(node) == node.type = "FunctionDeclaration"

\* some function descriptor matches the node and has hit count 0
FnDead(node) ==
    \E k \in DOMAIN coverage.fnMap :
        isSameFunction(node, coverage.fnMap[k]) /\ coverage.f[k] = 0

\* some function descriptor matches the node
FnMatched(node) ==
    \E k \in DOMAIN coverage.fnMap : isSameFunction(node, coverage.fnMap[k])

\* the first function descriptor that matches the node has hit count 0
FnFirstMatchDead(node) ==
    \E k \in DOMAIN coverage.fnMap :
        /\ isSameFunction(node, coverage.fnMap[k])
        /\ \A j \in 1 .. (k - 1) : ~isSameFunction(node, coverage.fnMap[j])
        /\ coverage.f[k] = 0

SameLoc(locA, locB) ==
    /\ locA.start.line = locB.start.line
    /\ locA.end.line = locB.end.line
    /\ locA.start.column = locB.start.column

\* some statement descriptor has the node's location and hit count 0
StmtDead(node) ==
    \E k \in DOMAIN coverage.statementMap :
        SameLoc(node.loc, coverage.statementMap[k]) /\ coverage.s[k] = 0

StmtMatched(node) ==
    \E k \in DOMAIN coverage.statementMap : SameLoc(node.loc, coverage.statementMap[k])

StmtFirstMatchDead(node) ==
    \E k \in DOMAIN coverage.statementMap :
        /\ SameLoc(node.loc, coverage.statementMap[k])
        /\ \A j \in 1 .. (k - 1) : ~SameLoc(node.loc, coverage.statementMap[j])
        /\ coverage.s[k] = 0

\* the stub of a declaration: same identifier, no parameter, empty body
IsStubOf(node, orig) ==
    /\ node.type = "FunctionDeclaration"
    /\ node.id = orig.id
    /\ node.params = 0
    /\ node.body = 0

\* the node was built by the plugin
IsBuilt(node) == node.loc = NoLoc

\* a function expression with the name of an assigned one dropped
Anonymized(fe) ==
    IF fe.parent = "AssignmentExpression" THEN [fe EXCEPT !.id = NoId] ELSE fe

\* a statement with the name of its assigned function expression dropped
Normalized(node) ==
    IF node.fe = << >> THEN node ELSE [node EXCEPT !.fe = <<Anonymized(node.fe[1])>>]

EmptyReport == coverage.fnMap = << >> /\ coverage.statementMap = << >>

AllHitsZero ==
    /\ coverage.present
    /\ ~EmptyReport
    /\ \A k \in DOMAIN coverage.f : coverage.f[k] = 0
    /\ \A k \in DOMAIN coverage.s : coverage.s[k] = 0

(***************************************************************************)
(* C1                                                                      *)
(***************************************************************************)
\* C1: a visited function declaration that some function descriptor with hit
\* count 0 matches is, in the output tree, a function declaration in the same
\* place with the same identifier, no parameters and an empty body; it is
\* not removed, whatever the statement descriptors are.
C1_StubKeepsIdentity ==
    \A i \in 1 .. Len(ast) :
        (Visited(i) /\ IsDeclaration(program[i]) /\ FnDead(program[i]))
            => (i \notin removed /\ IsStubOf(ast[i], program[i]))

\* a dead declaration was visited while a zero-hit statement descriptor has
\* exactly its location
C1_Witness ==
    \E i \in 1 .. Len(ast) :
        /\ Visited(i)
        /\ IsDeclaration(program[i])
        /\ FnDead(program[i])
        /\ StmtDead(program[i])

(***************************************************************************)
(* C2                                                                      *)
(***************************************************************************)
\* C2 as stated: with a missing or empty report the output tree is the
\* input tree, the named function expression of an assignment included.
C2_OutputIdentical ==
    (Traversed /\ (~coverage.present \/ EmptyReport))
        => (removed = {} /\ ast = program)

\* C2 amended: with a missing or empty report nothing is removed or stubbed,
\* and the output tree is the input tree but for one change: a named function
\* expression that is the right-hand side of an assignment has lost its name.
C2_OutputIdenticalButAssignedName ==
    (Traversed /\ (~coverage.present \/ EmptyReport))
        => /\ removed = {}
           /\ Len(ast) = Len(program)
           /\ \A i \in 1 .. Len(ast) : ast[i] = Normalized(program[i])

\* a program with a named function expression on the right of an assignment,
\* and one with a named function expression as a call argument, went through
\* the rewriter without a report
C2_Witness ==
    /\ Traversed
    /\ ~coverage.present
    /\ \E i \in 1 .. Len(program) :
          /\ program[i].fe # << >>
          /\ program[i].fe[1].parent = "AssignmentExpression"
    /\ \E i \in 1 .. Len(program) :
          /\ program[i].fe # << >>
          /\ program[i].fe[1].parent = "CallExpression"

(***************************************************************************)
(* C3                                                                      *)
(***************************************************************************)
\* C3 as stated: the first descriptor that matches decides: a declaration is
\* stubbed, and a statement removed, iff its first matching descriptor has
\* hit count 0.
C3_FirstMatchDecides ==
    Traversed =>
        \A i \in 1 .. Len(ast) :
            IF IsDeclaration(program[i])
            THEN IsBuilt(ast[i]) <=> FnFirstMatchDead(program[i])
            ELSE (i \in removed) <=> StmtFirstMatchDead(program[i])

\* C3 amended: a matching descriptor with a non-zero hit count does not end
\* the scan: a declaration is stubbed iff SOME matching function descriptor
\* has hit count 0, an expression statement is removed iff SOME matching
\* statement descriptor has hit count 0, and a function expression of a kept
\* statement is replaced iff SOME function descriptor matching it has hit
\* count 0.
C3_AnyDeadMatchDecides ==
    Traversed =>
        \A i \in 1 .. Len(ast) :
            IF IsDeclaration(program[i])
            THEN IsBuilt(ast[i]) <=> FnDead(program[i])
            ELSE /\ (i \in removed) <=> StmtDead(program[i])
                 /\ (i \notin removed /\ program[i].fe # << >>)
                       => (IsBuilt(ast[i].fe[1]) <=> FnDead(Anonymized(program[i].fe[1])))

\* a declaration whose first matching descriptor has a non-zero hit count and
\* whose second matching descriptor has hit count 0 went through the rewriter
C3_Witness ==
    /\ Traversed
    /\ \E i \in 1 .. Len(ast) :
          /\ IsDeclaration(program[i])
          /\ Len(coverage.fnMap) = 2
          /\ isSameFunction(program[i], coverage.fnMap[1])
          /\ isSameFunction(program[i], coverage.fnMap[2])
          /\ coverage.f[1] # 0
          /\ coverage.f[2] = 0

(***************************************************************************)
(* C4                                                                      *)
(***************************************************************************)
\* the function nodes the matcher is called on: the declarations, and the
\* function expressions before and after the normalisation of their name
FunctionNodes ==
    {program[i] : i \in {j \in 1 .. Len(program) : IsDeclaration(program[j])}}
    \cup {program[i].fe[1] : i \in {j \in 1 .. Len(program) : program[j].fe # << >>}}
    \cup {Anonymized(program[i].fe[1]) : i \in {j \in 1 .. Len(program) : program[j].fe # << >>}}

\* the rule of the matcher as the specification words it
StartAndNameOrEnd(node, fn) ==
    /\ node.loc.start.line = fn.loc.start.line
    /\ \/ (node.id # NoId /\ node.id = fn.name)
       \/ node.loc.end.line = fn.loc.end.line

\* C4 as stated: while the rewriter runs, the matcher is true exactly when the start lines are equal
\* and (the node's identifier has the descriptor's name or the end lines are
\* equal), descriptors without a name included.
C4_MatchIffStartAndNameOrEnd ==
    pc = "transform" => \A node \in FunctionNodes : \A k \in DOMAIN coverage.fnMap :
        isSameFunction(node, coverage.fnMap[k])
            <=> StartAndNameOrEnd(node, coverage.fnMap[k])

\* C4 amended: while the rewriter runs, the matcher is true exactly when the descriptor HAS a name,
\* the start lines are equal and (the node's identifier has the descriptor's
\* name or the end lines are equal); a descriptor without a name matches no
\* node.
C4_MatchIffNamedAndStartAndNameOrEnd ==
    pc = "transform" => \A node \in FunctionNodes : \A k \in DOMAIN coverage.fnMap :
        isSameFunction(node, coverage.fnMap[k])
            <=> (coverage.fnMap[k].name # NoName
                 /\ StartAndNameOrEnd(node, coverage.fnMap[k]))

\* the rewriter ran with a nameless descriptor that has a node's start and end
\* line, with a descriptor that matches a node by name only, and with one that
\* matches a node by end line only
C4_Witness ==
    /\ Traversed
    /\ \E node \in FunctionNodes : \E k \in DOMAIN coverage.fnMap :
          /\ coverage.fnMap[k].name = NoName
          /\ node.loc.start.line = coverage.fnMap[k].loc.start.line
          /\ node.loc.end.line = coverage.fnMap[k].loc.end.line
    /\ \E node \in FunctionNodes : \E k \in DOMAIN coverage.fnMap :
          /\ isSameFunction(node, coverage.fnMap[k])
          /\ (node.id = coverage.fnMap[k].name
                <=> node.loc.end.line = coverage.fnMap[k].loc.end.line) = FALSE

(***************************************************************************)
(* C5                                                                      *)
(***************************************************************************)
\* the statements of the program a statement descriptor with hit count 0 matches
DeadStatements == {i \in 1 .. Len(program) : coverage.present /\ StmtDead(program[i])}

\* those of them that are function declarations the function rule stubs
StubbedDeadStatements ==
    {i \in DeadStatements : IsDeclaration(program[i]) /\ FnDead(program[i])}

C7_AllZeroRewritesNothing ==
    (Traversed /\ AllHitsZero) =>
        /\ removed = {}
        /\ \A i \in 1 .. Len(ast) :
              /\ ~IsBuilt(ast[i])
              /\ ast[i].fe # << >> => ~IsBuilt(ast[i].fe[1])

\* C7 amended: a report whose hit counts are all zero is read like any other
\* report (only a missing report leaves the file alone): every function
\* declaration a function descriptor matches is stubbed, every other
\* statement a statement descriptor matches is removed, and every function
\* expression of a kept statement that a function descriptor matches is
\* replaced by the empty anonymous function.
C7_AllZeroRewritesEveryMatch ==
    (Traversed /\ AllHitsZero) =>
        \A i \in 1 .. Len(ast) :
            /\ (IsDeclaration(program[i]) /\ FnMatched(program[i]))
                  => (i \notin removed /\ IsStubOf(ast[i], program[i]) /\ IsBuilt(ast[i]))
            /\ (~(IsDeclaration(program[i]) /\ FnMatched(program[i])) /\ StmtMatched(program[i]))
                  => i \in removed
            /\ (i \notin removed /\ program[i].fe # << >>
                  /\ FnMatched(Anonymized(program[i].fe[1])))
                  => IsBuilt(ast[i].fe[1])

\* the rewriter ran with an all-zero report and stubbed a declaration and
\* removed a statement
C7_Witness ==
    /\ Traversed
    /\ AllHitsZero
    /\ removed # {}
    /\ \E i \in 1 .. Len(ast) : IsBuilt(ast[i])

(***************************************************************************)
(* C10                                                                     *)
(***************************************************************************)
\* C10: a function declaration that no zero-hit function descriptor matches
\* (verdict Live or NoData) is kept in the output tree with its parameters
\* and body, whatever the statement descriptors are.
C10_LiveDeclarationKept ==
    Traversed =>
        \A i \in 1 .. Len(ast) :
            (IsDeclaration(program[i]) /\ ~(coverage.present /\ FnDead(program[i])))
                => (i \notin removed /\ ast[i] = program[i])

(***************************************************************************)
(* C6, C8, C9: the run of the script                                       *)
(***************************************************************************)
Logged(level) == \E k \in DOMAIN console : console[k].level = level

\* C6 as stated: an exception of either executed program (the original or the
\* pruned one) is caught and counts as a failed validation; the run does not
\* end abnormally.
C6_EitherExceptionCaught ==
    (beforeTestOutput = Threw \/ afterTestOutput = Threw)
        => (pc # "crashed" /\ validation = "failed")

\* C6 amended: an exception of the PRUNED program's run is caught, logged and
\* counts as a failed validation: trimmed.js is already written and
\* uglified.js is written next.  An exception of the run of the instrumented
\* original program is not caught: the script ends there, with original.js
\* and instrumented.js written and nothing else.
C6_PrunedExceptionCaught ==
    /\ afterTestOutput = Threw =>
          /\ pc \in {"validated", "done"}
          /\ validation = "failed"
          /\ Logged("error")
          /\ "trimmed.js" \in files
          /\ pc = "validated" => ENABLED WriteUglified
          /\ pc = "done" => "uglified.js" \in files
    /\ beforeTestOutput = Threw =>
          /\ pc = "crashed"
          /\ files = {"original.js", "instrumented.js"}
          /\ ~ENABLED Next

\* the pruned program threw and the script ran to its end
C6_Witness == afterTestOutput = Threw /\ pc = "done"

\* C8: when the outputs differ a warning and both outputs are logged, and the
\* pruned artifacts are emitted all the same: trimmed.js is on disk, the
\* script goes on and writes uglified.js.
C8_MismatchDoesNotGate ==
    validation = "mismatch" =>
        /\ Logged("warn")
        /\ \E k \in DOMAIN console : console[k].text = <<"original:", beforeTestOutput>>
        /\ \E k \in DOMAIN console : console[k].text = <<"after:", afterTestOutput>>
        /\ afterTestOutput # beforeTestOutput
        /\ "trimmed.js" \in files
        /\ pc \in {"validated", "done"}
        /\ pc = "validated" => ENABLED WriteUglified
        /\ pc = "done" => "uglified.js" \in files

\* the outputs differed and the script ran to its end
C8_Witness == validation = "mismatch" /\ pc = "done"

\* every b of the history has an a before it
Precedes(a, b) ==
    \A j \in DOMAIN history :
        history[j] = b => \E i \in 1 .. (j - 1) : history[i] = a

StageOrder ==
    <<"instrument", "execute-original", "rewrite-begin", "rewrite-end",
      "write-trimmed", "execute-trimmed", "write-uglified">>

\* C9 as stated: instrument, then collect coverage, then rewrite, then both
\* validation executions, then emit: the rewriter runs after the instrumented
\* run, the original's and the pruned program's executions both come after the
\* rewrite, and the artifacts are written after the validation.
C9_StagesInStatedOrder ==
    /\ Precedes("instrument", "execute-original")
    /\ Precedes("execute-original", "rewrite-begin")
    /\ Precedes("rewrite-end", "execute-trimmed")
    /\ beforeTestOutput \in Outputs => \E k \in DOMAIN history : history[k] = "rewrite-end"
    /\ Precedes("execute-trimmed", "write-trimmed")
    /\ Precedes("execute-trimmed", "write-uglified")
    /\ (files \cap {"trimmed.js", "uglified.js"}) # {} => validation # "none"

\* C9 amended: the steps run one after the other in this order: instrument
\* (original.js and instrumented.js are written here), execute the
\* instrumented program on the test input (coverage and the original output,
\* the only execution of the original), rewrite, write trimmed.js, execute the
\* pruned program and compare, write uglified.js.  The rewriter reads the hit
\* counts after the instrumented run; only the pruned program's execution
\* follows the rewrite; trimmed.js is written before the validation.
C9_StagesInCodeOrder ==
    /\ Len(history) <= Len(StageOrder)
    /\ \A k \in DOMAIN history : history[k] = StageOrder[k]
    /\ pc = "transform" => beforeTestOutput \in Outputs
    /\ "trimmed.js" \in files => pc \in {"trimmed", "validated", "done"}
    /\ "uglified.js" \in files => validation # "none"
    /\ validation # "none" => "trimmed.js" \in files

\* the script ran to its end
C9_Witness == pc = "done" /\ Len(history) = Len(StageOrder)

====
